---- MODULE Spec2Model ----
(***************************************************************************)
(* The selective-update engine of fundingwiki: a WikiManager sets up one   *)
(* table of the record store (Airtable), renders it with the Table classes *)
(* of wikicontents.py and publishes the table page and the record pages to *)
(* the wiki (DokuWiki), clearing the records' Modified flags.              *)
(*                                                                         *)
(* Strings that are sanitized (page names) are sequences of one-character  *)
(* strings; a rendered document is a sequence of tokens, so that string    *)
(* concatenation is sequence concatenation.  Every manager operation is    *)
(* one action; the order of the external calls it makes is kept in the     *)
(* list of steps the operation is translated to, and a call that raises    *)
(* cuts that list.                                                         *)
(***************************************************************************)
EXTENDS Integers, Sequences, FiniteSets, TLC

VARIABLES
    table_name,   \* WikiManager.used_table_name; None before setup_table
    records,      \* WikiManager.table.records, the in-memory record list
    airtable,     \* the record store: record id -> fields
    wiki,         \* the wiki: page id -> page content
    fetched,      \* history: the list get_all() returned at setup_table
    runs,         \* history: one entry per manager operation called
    status,       \* "ready", or "aborted" once an exception left the process
    call          \* the last call of a function of the rendering modules on its own

vars == <<table_name, records, airtable, wiki, fetched, runs, status, call>>

----------------------------------------------------------------------------
(* Bounds of the model *)

MaxRecords == 2     \* records a table holds at most
MaxRuns == 2        \* manager operations called after setup_table at most

MaxValueLen == 1    \* characters of a value put into a page template at most

MaxPageLen == 6     \* characters of a wiki page a table is embedded in at most

MaxNameLen == 3     \* characters of a name that is sanitized on its own at most

MaxAuthors == 3     \* authors of a citation entry at most
MaxLinks == 2       \* linked ids in a column at most

(* Input alphabets *)

Punctuation == {"!"}                         \* the characters of string.punctuation that occur
NameValues == {<<"a", "!">>, <<"a">>, <<"b">>}    \* values of a page-name field
LabelValues == {<<"p">>}                      \* values of a main column that names no page

None == "None"

(* Field values are sequences of strings, whatever their Python type *)
True == <<"True">>
False == <<"False">>

----------------------------------------------------------------------------
(* wikicontents.py: module level *)

(* a translation that deletes the first punctuation character only *)
translate_first(s) ==
    IF \A i \in 1..Len(s) : s[i] \notin Punctuation THEN s
    ELSE LET i == CHOOSE i \in 1..Len(s) :
                      s[i] \in Punctuation /\ \A j \in 1..(i - 1) : s[j] \notin Punctuation
         IN  SubSeq(s, 1, i - 1) \o SubSeq(s, i + 1, Len(s))

punctuation_translator(s) == SelectSeq(s, LAMBDA c : c \notin Punctuation)

HasField(record, f) == f \in DOMAIN record.fields

(* the check mark, u'\u2713' *)
CheckMark == <<"check">>

(* a check only for a field stored as True *)
insert_check_if_true(value, record) ==
    IF HasField(record, value) /\ record.fields[value] = True THEN CheckMark ELSE <<>>

insert_check(value, record) == IF ~HasField(record, value) THEN <<>> ELSE CheckMark

Ok(v) == [ok |-> TRUE, val |-> v]
Raise == [ok |-> FALSE, val |-> <<>>]

----------------------------------------------------------------------------
(* wikimanager.py: setup_table chooses the Table class by the table name *)

defined_tables ==
    {"Tools", "Giving_companies_ftse", "Giving_companies_other", "Charity_experiments",
     "Experiences", "Third_sector", "papers_mass", "Categories"}

TableNames == defined_tables \cup {"Unknown"}

ClassOf(t) ==
    CASE t = "Tools" -> "ToolTable"
      [] t = "Giving_companies_ftse" -> "FtseTable"
      [] t = "Giving_companies_other" -> "FtseTable"
      [] t = "Charity_experiments" -> "ExperimentTable"
      [] t = "Experiences" -> "ExperienceTable"
      [] t = "Third_sector" -> "ThirdSectorTable"
      [] t = "papers_mass" -> "PapersTable"
      [] t = "Categories" -> "CategoryTable"
      [] OTHER -> "Table"

company_group(t) == IF t = "Giving_companies_ftse" THEN "FTSE100" ELSE "Other"

(* wikicontents.py: the attributes each class sets in __init__ *)

TableClass ==
    [ Table |->
        [main_column |-> None, dw_page_name_column |-> None, root_namespace |-> <<None>>,
         linked_pages |-> TRUE, dw_table_page |-> <<"tables:test">>],
      ToolTable |->
        [main_column |-> "Tool name", dw_page_name_column |-> "Tool name",
         root_namespace |-> <<"tools:">>,
         linked_pages |-> TRUE, dw_table_page |-> <<"tables:tools">>],
      FtseTable |->
        [main_column |-> "Company", dw_page_name_column |-> "Company",
         root_namespace |-> <<"companies:">>,
         linked_pages |-> TRUE, dw_table_page |-> <<"tables:employee_giving_schemes_">>],
      PapersTable |->
        [main_column |-> "parencite", dw_page_name_column |-> "Title",
         root_namespace |-> <<"papers:">>,
         linked_pages |-> TRUE, dw_table_page |-> <<"tables:papers">>],
      CategoryTable |->
        [main_column |-> "(Sub)Category or theme", dw_page_name_column |-> None,
         root_namespace |-> <<None>>,
         linked_pages |-> FALSE, dw_table_page |-> <<"tables:tool_categories">>],
      ExperimentTable |->
        [main_column |-> "Experiment", dw_page_name_column |-> None, root_namespace |-> <<None>>,
         linked_pages |-> FALSE, dw_table_page |-> <<"tables:data_experiments">>],
      ExperienceTable |->
        [main_column |-> "Name", dw_page_name_column |-> None, root_namespace |-> <<None>>,
         linked_pages |-> FALSE,
         dw_table_page |-> <<"tables:experiences_of_workplace_activists">>],
      ThirdSectorTable |->
        [main_column |-> "Name", dw_page_name_column |-> None, root_namespace |-> <<None>>,
         linked_pages |-> FALSE,
         dw_table_page |-> <<"tables:third_sector_infrastructure_details">>] ]

main_column(t) == TableClass[ClassOf(t)].main_column

(* every class naming its pages by the main column *)
dw_page_name_column_main(t) == TableClass[ClassOf(t)].main_column

dw_page_name_column(t) == TableClass[ClassOf(t)].dw_page_name_column

root_namespace(t) == TableClass[ClassOf(t)].root_namespace

linked_pages(t) == TableClass[ClassOf(t)].linked_pages

(* FtseTable appends its company group to the name of its table page *)
dw_table_page(t) ==
    TableClass[ClassOf(t)].dw_table_page
    \o (IF ClassOf(t) = "FtseTable" THEN <<company_group(t)>> ELSE <<>>)

(* Tokens of a rendered document.  rec is the id of the record a token was *)
(* rendered from (0 for none); text is the link target or name it carries. *)
Token(kind, rec, text) == [kind |-> kind, rec |-> rec, text |-> text]

header(t) == IF ClassOf(t) = "Table" THEN <<>> ELSE <<Token("header", 0, <<ClassOf(t)>>)>>

----------------------------------------------------------------------------
(* wikicontents.py: construct_row of each class.  The result is the text   *)
(* the row adds to the table: no token for '', one row token otherwise; a  *)
(* subscript of a field the record lacks raises KeyError.                  *)

Row(record, text) == <<Token("row", record.id, text)>>

(* The records a linked id can name.  self.airtable.get(item_id) returns   *)
(* the record of an id of the store and raises for any other id, the       *)
(* empty id of the default [""] included.                                  *)
LinkedStore ==
    [item_id \in {"rec1", "rec2"} |->
        [fields |-> [Title |-> <<"a">>, parencite |-> <<"p">>, Description |-> <<"d">>,
                     Theory |-> <<"x">>]]]

AllResolve(item_ids) == \A i \in 1..Len(item_ids) : item_ids[i] \in DOMAIN LinkedStore

(* two calls of self.airtable.get for each id *)
RECURSIVE twice(_)
twice(item_ids) ==
    IF item_ids = <<>> THEN <<>>
    ELSE <<Head(item_ids), Head(item_ids)>> \o twice(Tail(item_ids))

(* ToolTable.construct_row, lines 300-331: the ids it fetches, in order *)
ToolTable_row_items(record) ==
    (IF HasField(record, "Category")
        THEN record.fields["Category"] \o record.fields["Category"]
        ELSE <<"", "">>)
    \o (IF HasField(record, "key_papers") THEN twice(record.fields["key_papers"]) ELSE <<>>)

(* PapersTable.construct_row, lines 658-662 *)
PapersTable_row_items(record) ==
    IF HasField(record, "tools") THEN record.fields["tools"] ELSE <<>>

Table_construct_row(t, record) == Ok(Row(record, <<>>))

(* ToolTable.construct_row without the test of 'Wiki?' *)
ToolTable_construct_row_any(t, record) ==
    IF HasField(record, "Tool name") /\ AllResolve(ToolTable_row_items(record))
    THEN Ok(Row(record, <<"tools:">> \o punctuation_translator(record.fields["Tool name"])))
    ELSE Raise

ToolTable_construct_row(t, record) ==
    IF HasField(record, "Wiki?")
    THEN IF HasField(record, "Tool name") /\ AllResolve(ToolTable_row_items(record))
         THEN Ok(Row(record, <<"tools:">> \o punctuation_translator(record.fields["Tool name"])))
         ELSE Raise
    ELSE Ok(<<>>)

FtseTable_construct_row(t, record) ==
    IF ~HasField(record, "Company group") THEN Raise
    ELSE IF record.fields["Company group"] # <<company_group(t)>> THEN Ok(<<>>)
    ELSE IF ~HasField(record, "Company") THEN Raise
    ELSE Ok(Row(record, <<"companies:">> \o punctuation_translator(record.fields["Company"])))

PapersTable_construct_row(t, record) ==
    IF ~HasField(record, "parencite") \/ ~AllResolve(PapersTable_row_items(record)) THEN Raise
    ELSE LET title == IF HasField(record, "Title") THEN record.fields["Title"] ELSE <<>>
         IN  Ok(Row(record, <<"papers:">> \o punctuation_translator(title)))

CategoryTable_construct_row(t, record) ==
    IF HasField(record, "(Sub)Category or theme") /\ HasField(record, "Description")
    THEN Ok(Row(record, record.fields["(Sub)Category or theme"]))
    ELSE Raise

PlainTable_construct_row(t, record) ==
    IF HasField(record, main_column(t))
    THEN Ok(Row(record, record.fields[main_column(t)]))
    ELSE Raise

construct_row(t, record) ==
    CASE ClassOf(t) = "ToolTable" -> ToolTable_construct_row(t, record)
      [] ClassOf(t) = "FtseTable" -> FtseTable_construct_row(t, record)
      [] ClassOf(t) = "PapersTable" -> PapersTable_construct_row(t, record)
      [] ClassOf(t) = "CategoryTable" -> CategoryTable_construct_row(t, record)
      [] ClassOf(t) = "Table" -> Table_construct_row(t, record)
      [] OTHER -> PlainTable_construct_row(t, record)

(* row + table_content instead of table_content + row *)
Concat_prepend(table_content, row) ==
    IF table_content.ok /\ row.ok THEN Ok(row.val \o table_content.val) ELSE Raise

(* table_content += row: an exception in either part leaves no content *)
Concat(table_content, row) ==
    IF table_content.ok /\ row.ok THEN Ok(table_content.val \o row.val) ELSE Raise

(* the loop body without the test of the main column *)
table_row_unfiltered(t, record) == construct_row(t, record)

(* Table.format_table, lines 181-185: the body of the loop over self.records *)
table_row(t, record) ==
    IF (main_column(t) # None) /\ ~HasField(record, main_column(t))
    THEN Ok(<<>>)
    ELSE construct_row(t, record)

(* Table.format_table, lines 179-185: the loop over self.records *)
RECURSIVE table_rows(_, _)
table_rows(t, recs) ==
    IF recs = <<>> THEN Ok(<<>>)
    ELSE Concat(table_row(t, Head(recs)), table_rows(t, Tail(recs)))

(* Table.format_table and CategoryTable.format_table *)
format_table(t, recs) ==
    IF ClassOf(t) = "CategoryTable"
    THEN Concat(Concat(Ok(<<Token("open", 0, <<"datatables">>)>> \o header(t)),
                       table_rows(t, recs)),
                Ok(<<Token("close", 0, <<"datatables">>)>>))
    ELSE Concat(Ok(header(t)), table_rows(t, recs))

----------------------------------------------------------------------------
(* wikicontents.py: create_page of each class and Table.format_pages *)

(* record['fields'].get(f, '') *)
Get(record, f) == IF HasField(record, f) THEN record.fields[f] ELSE <<>>

(* journal.translate(bibtex_translator).lower().title() on the letters of  *)
(* the model: backslash and braces go, a letter is upper case at the start *)
(* of a word and lower case elsewhere                                      *)
bibtex_translator(s) == SelectSeq(s, LAMBDA c : c \notin {"\\", "{", "}"})

lower(c) == CASE c = "J" -> "j" [] c = "B" -> "b" [] OTHER -> c

upper(c) == CASE c = "j" -> "J" [] c = "b" -> "B" [] OTHER -> c

IsLetter(c) == c \in {"j", "J", "b", "B"}

title_case(s) ==
    [i \in 1..Len(s) |-> IF i = 1 \/ ~IsLetter(s[i - 1]) THEN upper(s[i]) ELSE lower(s[i])]

(* format_citation, lines 67-71: the title, linked to the URL if there is one *)
cited_title(record) ==
    IF Get(record, "URL") = <<>>
    THEN <<"//">> \o record.fields["Title"] \o <<"//">>
    ELSE <<"//[[">> \o Get(record, "URL") \o <<"|">> \o record.fields["Title"] \o <<"]]//">>

(* '{}, ({}). {}.': the part every reference has *)
plain_reference(record) ==
    Get(record, "Authors") \o <<", (">> \o Get(record, "Year") \o <<"). ">>
    \o cited_title(record) \o <<".">>

(* '{}, ({}). {}. {}, {}, {}, {}.' *)
article_reference(record) ==
    plain_reference(record) \o <<" ">>
    \o title_case(bibtex_translator(Get(record, "Journal"))) \o <<", ">>
    \o Get(record, "Vol") \o <<", ">> \o Get(record, "Num") \o <<", ">>
    \o Get(record, "Pages") \o <<".">>

(* '{}, ({}). {}, {}. In: {}.' *)
incollection_reference(record) ==
    Get(record, "Authors") \o <<", (">> \o Get(record, "Year") \o <<"). ">>
    \o cited_title(record) \o <<", ">> \o Get(record, "Pages") \o <<". In: ">>
    \o Get(record, "Book_title") \o <<".">>

(* a technical report cited like a book *)
techreport_reference_plain(record) == plain_reference(record)

(* '{}, ({}). {}. {}.' *)
techreport_reference(record) ==
    plain_reference(record) \o <<" ">> \o Get(record, "Institution") \o <<".">>

(* format_citation: 'Publication_type' and 'Title' are subscripted, every  *)
(* other field is read with get                                            *)
format_citation(record) ==
    IF HasField(record, "Publication_type") /\ HasField(record, "Title")
    THEN Ok(CASE record.fields["Publication_type"] = <<"article">> -> article_reference(record)
              [] record.fields["Publication_type"] = <<"incollection">> ->
                    incollection_reference(record)
              [] record.fields["Publication_type"] = <<"techreport">> ->
                    techreport_reference(record)
              [] OTHER -> plain_reference(record))
    ELSE Raise

Page(record, text) == <<Token("page", record.id, text)>>

(* ToolTable.create_page, lines 362-424: the ids it fetches, in order *)
ToolTable_page_items(record) ==
    (IF HasField(record, "Category") THEN record.fields["Category"] ELSE <<>>)
    \o (IF HasField(record, "key_papers") THEN twice(record.fields["key_papers"]) ELSE <<>>)

(* PapersTable.create_page, lines 697-718 *)
PapersTable_page_items(record) ==
    (IF HasField(record, "tools") THEN record.fields["tools"] ELSE <<>>)
    \o (IF HasField(record, "Theories") THEN record.fields["Theories"] ELSE <<>>)

create_page(t, record) ==
    CASE ClassOf(t) = "ToolTable" ->
            IF HasField(record, "Tool name") /\ AllResolve(ToolTable_page_items(record))
            THEN Ok(Page(record, record.fields["Tool name"]))
            ELSE Raise
      [] ClassOf(t) = "FtseTable" ->
            IF HasField(record, "Company") THEN Ok(Page(record, record.fields["Company"])) ELSE Raise
      [] ClassOf(t) = "PapersTable" ->
            IF /\ HasField(record, "Title")
               /\ format_citation(record).ok
               /\ AllResolve(PapersTable_page_items(record))
            THEN Ok(Page(record, record.fields["Title"]))
            ELSE Raise
      [] OTHER -> Ok(Page(record, <<>>))

(* a dict in which the first page stored under a key stays *)
DictSet_keep_first(d, key, page) ==
    IF \E i \in 1..Len(d) : d[i].key = key THEN d ELSE Append(d, [key |-> key, page |-> page])

(* new_pages[key] = page on a dict that keeps insertion order *)
DictSet(d, key, page) ==
    IF \E i \in 1..Len(d) : d[i].key = key
    THEN [i \in 1..Len(d) |-> IF d[i].key = key THEN [key |-> key, page |-> page] ELSE d[i]]
    ELSE Append(d, [key |-> key, page |-> page])

(* the page name used as it is, punctuation included *)
full_page_name_raw(t, record) == root_namespace(t) \o record.fields[dw_page_name_column(t)]

(* Table.format_pages, lines 229-231 *)
full_page_name(t, record) ==
    root_namespace(t) \o punctuation_translator(record.fields[dw_page_name_column(t)])

(* new_pages[full_page_name] = page, unless create_page raised *)
add_page(new_pages, key, page) ==
    IF new_pages.ok /\ page.ok THEN Ok(DictSet(new_pages.val, key, page.val)) ELSE Raise

(* Table.format_pages, lines 224-233: the loop over the records *)
RECURSIVE pages_loop(_, _, _)
pages_loop(t, recs, new_pages) ==
    IF recs = <<>> \/ ~new_pages.ok THEN new_pages
    ELSE IF \/ ~HasField(Head(recs), main_column(t))
            \/ ~HasField(Head(recs), dw_page_name_column(t))
    THEN pages_loop(t, Tail(recs), new_pages)
    ELSE pages_loop(t, Tail(recs),
                    add_page(new_pages, full_page_name(t, Head(recs)), create_page(t, Head(recs))))

(* new_pages = {}; new_pages['test:test_page'] = page *)
test_page(page) ==
    IF page.ok THEN Ok(<<[key |-> <<"test:test_page">>, page |-> page.val]>>) ELSE Raise

format_pages(t, recs) ==
    IF (main_column(t) = None) /\ (dw_page_name_column(t) = None)
    THEN IF recs = <<>> THEN Raise ELSE test_page(create_page(t, recs[1]))
    ELSE pages_loop(t, recs, Ok(<<>>))

----------------------------------------------------------------------------
(* The external calls of an operation, in program order.  A step is        *)
(*   update : airtable.update(id, {field: value})                          *)
(*   get    : airtable.get(item) of a linked record                        *)
(*   set    : wiki.pages.set(page, content)                                *)
(*   sleep  : time.sleep(secs)                                             *)
(*   assign : self.table.records = recs                                    *)
(*   raise  : an exception of the program itself (KeyError, IndexError)    *)

PageDelay == 5        \* Table.set_pages, ToolTable.set_pages
FtseDelay == 10       \* FtseTable.set_pages

Step(kind, id, page, content, recs, secs, item) ==
    [kind |-> kind, id |-> id, page |-> page, content |-> content, recs |-> recs, secs |-> secs,
     item |-> item]

UpdateStep(id) == Step("update", id, <<>>, <<>>, <<>>, 0, None)
SetStep(page, content) == Step("set", 0, page, content, <<>>, 0, None)
SleepStep(secs) == Step("sleep", 0, <<>>, <<>>, <<>>, secs, None)
AssignStep(recs) == Step("assign", 0, <<>>, <<>>, recs, 0, None)
RaiseStep == Step("raise", 0, <<>>, <<>>, <<>>, 0, None)

(* a resolution that also writes to the record it fetched *)
GetStep_marking(item_id) == Step("update_item", 0, <<>>, <<>>, <<>>, 0, item_id)

(* self.airtable.get(item_id) *)
GetStep(item_id) == Step("get", 0, <<>>, <<>>, <<>>, 0, item_id)

(* the fetches of a list of ids, up to the first id that does not resolve *)
RECURSIVE gets(_)
gets(item_ids) ==
    IF item_ids = <<>> THEN <<>>
    ELSE <<GetStep(Head(item_ids))>>
         \o (IF Head(item_ids) \in DOMAIN LinkedStore THEN gets(Tail(item_ids)) ELSE <<>>)

(* the fetches of construct_row: none before the subscripts that raise *)
construct_row_gets(t, record) ==
    CASE ClassOf(t) = "ToolTable" ->
            IF HasField(record, "Wiki?") /\ HasField(record, "Tool name")
            THEN gets(ToolTable_row_items(record)) ELSE <<>>
      [] ClassOf(t) = "PapersTable" ->
            IF HasField(record, "parencite") THEN gets(PapersTable_row_items(record)) ELSE <<>>
      [] OTHER -> <<>>

(* the fetches of format_table: the loop ends at the first row that raises *)
RECURSIVE table_gets(_, _)
table_gets(t, recs) ==
    IF recs = <<>> THEN <<>>
    ELSE (IF (main_column(t) # None) /\ ~HasField(Head(recs), main_column(t))
          THEN <<>> ELSE construct_row_gets(t, Head(recs)))
         \o (IF table_row(t, Head(recs)).ok THEN table_gets(t, Tail(recs)) ELSE <<>>)

(* the fetches of create_page *)
create_page_gets(t, record) ==
    CASE ClassOf(t) = "ToolTable" ->
            IF HasField(record, "Tool name") THEN gets(ToolTable_page_items(record)) ELSE <<>>
      [] ClassOf(t) = "PapersTable" ->
            IF HasField(record, "Title") /\ format_citation(record).ok
            THEN gets(PapersTable_page_items(record)) ELSE <<>>
      [] OTHER -> <<>>

(* the fetches of format_pages: the loop ends at the first page that raises *)
RECURSIVE pages_gets(_, _)
pages_gets(t, recs) ==
    IF recs = <<>> \/ dw_page_name_column(t) = None THEN <<>>
    ELSE IF \/ ~HasField(Head(recs), main_column(t))
            \/ ~HasField(Head(recs), dw_page_name_column(t))
    THEN pages_gets(t, Tail(recs))
    ELSE create_page_gets(t, Head(recs))
         \o (IF create_page(t, Head(recs)).ok THEN pages_gets(t, Tail(recs)) ELSE <<>>)

relevant_gets(t, relevant) == IF relevant.ok THEN pages_gets(t, relevant.val) ELSE <<>>

(* self.wiki.pages.set(self.dw_table_page, new_page) *)
post_table(t, new_page) ==
    IF new_page.ok THEN <<SetStep(dw_table_page(t), new_page.val)>> ELSE <<RaiseStep>>

(* Table.set_table_page *)
set_table_page(t, recs) == table_gets(t, recs) \o post_table(t, format_table(t, recs))

(* the loop without time.sleep *)
post_pages_unpaced(new_pages, secs) ==
    [i \in 1..Len(new_pages) |-> SetStep(new_pages[i].key, new_pages[i].page)]

(* the loop "for page in new_pages: wiki.pages.set(...); time.sleep(...)" *)
RECURSIVE post_pages(_, _)
post_pages(new_pages, secs) ==
    IF new_pages = <<>> THEN <<>>
    ELSE <<SetStep(Head(new_pages).key, Head(new_pages).page), SleepStep(secs)>>
         \o post_pages(Tail(new_pages), secs)

(* set_pages passing every record to format_pages *)
relevant_records_all(t, recs) == Ok(recs)

(* the records set_pages passes to format_pages: all of them in           *)
(* Table.set_pages, those with 'Wiki?' in ToolTable.set_pages, those of    *)
(* the table's company group in FtseTable.set_pages                        *)
relevant_records(t, recs) ==
    CASE ClassOf(t) = "ToolTable" ->
            Ok(SelectSeq(recs, LAMBDA record : HasField(record, "Wiki?")))
      [] ClassOf(t) = "FtseTable" ->
            IF \E i \in 1..Len(recs) : ~HasField(recs[i], "Company group")
            THEN Raise
            ELSE Ok(SelectSeq(recs, LAMBDA record :
                        record.fields["Company group"] = <<company_group(t)>>))
      [] OTHER -> Ok(recs)

format_relevant(t, relevant) ==
    IF relevant.ok THEN format_pages(t, relevant.val) ELSE Raise

post_all(t, new_pages) ==
    IF new_pages.ok
    THEN post_pages(new_pages.val, IF ClassOf(t) = "FtseTable" THEN FtseDelay ELSE PageDelay)
    ELSE <<RaiseStep>>

(* Table.set_pages, ToolTable.set_pages, FtseTable.set_pages *)
set_pages(t, recs) ==
    relevant_gets(t, relevant_records(t, recs))
    \o post_all(t, format_relevant(t, relevant_records(t, recs)))

----------------------------------------------------------------------------
(* wikimanager.py: the operations of the manager as lists of steps *)

IsModified(record) == HasField(record, "Modified")

modified_records(recs) == SelectSeq(recs, IsModified)

(* the loop of the three update operations: one update per flagged record *)
clear_modified(recs) ==
    [i \in 1..Len(modified_records(recs)) |-> UpdateStep(modified_records(recs)[i].id)]

create_table(t, recs) == set_table_page(t, recs)

create_pages(t, recs) == set_pages(t, recs)

create_table_pages(t, recs) ==
    set_table_page(t, recs) \o (IF linked_pages(t) THEN set_pages(t, recs) ELSE <<>>)

(* update_table sending the clearing updates after the table is published *)
update_table_publish_first(t, recs) ==
    (IF Len(modified_records(recs)) > 0 THEN set_table_page(t, recs) ELSE <<>>)
    \o clear_modified(recs)

update_table(t, recs) ==
    clear_modified(recs)
    \o (IF Len(modified_records(recs)) > 0 THEN set_table_page(t, recs) ELSE <<>>)

(* update_pages publishing whether or not a record is flagged *)
update_pages_unguarded(t, recs) ==
    clear_modified(recs)
    \o <<AssignStep(modified_records(recs))>> \o set_pages(t, modified_records(recs))

update_pages(t, recs) ==
    clear_modified(recs)
    \o (IF Len(modified_records(recs)) > 0
        THEN <<AssignStep(modified_records(recs))>> \o set_pages(t, modified_records(recs))
        ELSE <<>>)

(* update_table_pages narrowing self.table.records before the table is rendered *)
update_table_pages_narrow_first(t, recs) ==
    clear_modified(recs)
    \o (IF Len(modified_records(recs)) > 0
        THEN <<AssignStep(modified_records(recs))>>
             \o set_table_page(t, modified_records(recs))
             \o set_pages(t, modified_records(recs))
        ELSE <<>>)

(* update_table_pages written as update_table followed by update_pages *)
update_table_pages_reuse(t, recs) == update_table(t, recs) \o update_pages(t, recs)

update_table_pages(t, recs) ==
    clear_modified(recs)
    \o (IF Len(modified_records(recs)) > 0
        THEN set_table_page(t, recs)
             \o <<AssignStep(modified_records(recs))>>
             \o set_pages(t, modified_records(recs))
        ELSE <<>>)

Steps(op, t, recs) ==
    CASE op = "update_table" -> update_table(t, recs)
      [] op = "update_pages" -> update_pages(t, recs)
      [] op = "update_table_pages" -> update_table_pages(t, recs)
      [] op = "create_table" -> create_table(t, recs)
      [] op = "create_pages" -> create_pages(t, recs)
      [] op = "create_table_pages" -> create_table_pages(t, recs)

----------------------------------------------------------------------------
(* Execution of a list of steps.  fail = k > 0 makes the k-th wiki write   *)
(* of the operation raise (a transport failure); a raise step always does. *)
(* The steps before the first raising one take effect, the rest never run. *)

NumSets(steps, n) == Cardinality({i \in 1..n : steps[i].kind = "set"})

Raises(steps, i, fail) ==
    \/ steps[i].kind = "raise"
    \/ steps[i].kind = "set" /\ fail > 0 /\ NumSets(steps, i) = fail

Executed(steps, fail) ==
    LET bad == {i \in 1..Len(steps) : Raises(steps, i, fail)}
    IN  IF bad = {} THEN steps
        ELSE SubSeq(steps, 1, (CHOOSE i \in bad : \A j \in bad : i <= j) - 1)

Outcome(steps, fail) ==
    LET done == Executed(steps, fail)
    IN  IF Len(done) = Len(steps) THEN "ok"
        ELSE IF steps[Len(done) + 1].kind = "raise" THEN "raised"
        ELSE "wiki_failed"

(* airtable.update(id, {field: value}) *)
ApplyUpdate(store, id, field, value) ==
    [store EXCEPT ![id] = [f \in DOMAIN store[id] \cup {field} |->
                               IF f = field THEN value ELSE store[id][f]]]

(* wiki.pages.set(page, content) *)
ApplySet(w, page, content) ==
    [p \in DOMAIN w \cup {page} |-> IF p = page THEN content ELSE w[p]]

RECURSIVE Effect(_, _)
Effect(st, steps) ==
    IF steps = <<>> THEN st
    ELSE LET s == Head(steps)
             next == CASE s.kind = "update" ->
                            [st EXCEPT !.airtable = ApplyUpdate(st.airtable, s.id, "Modified", False)]
                       [] s.kind = "set" -> [st EXCEPT !.wiki = ApplySet(st.wiki, s.page, s.content)]
                       [] s.kind = "assign" -> [st EXCEPT !.records = s.recs]
                       [] OTHER -> st
         IN  Effect(next, Tail(steps))

----------------------------------------------------------------------------
(* The records a table of the record store can hold *)

FieldValues(t, f) ==
    CASE f = "Modified" -> {True}
      [] f = "Wiki?" -> {True}
      [] f = "Company group" -> {<<"FTSE100">>, <<"Other">>}
      [] f = "Description" -> {<<"d">>}
      [] f = "Publication_type" -> {<<"article">>}
      [] f = dw_page_name_column(t) -> IF ClassOf(t) = "ToolTable" THEN NameValues ELSE {<<"a", "!">>}
      [] OTHER -> LabelValues

FieldNames(t) ==
    {"Modified"}
    \cup (IF main_column(t) = None THEN {"Field"} ELSE {main_column(t)})
    \cup (IF dw_page_name_column(t) = None THEN {} ELSE {dw_page_name_column(t)})
    \cup (IF ClassOf(t) = "ToolTable" THEN {"Wiki?"} ELSE {})
    \cup (IF ClassOf(t) = "FtseTable" THEN {"Company group"} ELSE {})
    \cup (IF ClassOf(t) = "PapersTable" THEN {"Publication_type"} ELSE {})
    \cup (IF ClassOf(t) = "CategoryTable" THEN {"Description"} ELSE {})

AllValues(t) == UNION {FieldValues(t, f) : f \in FieldNames(t)}

(* the linked columns every record of the table carries: a tool names its category *)
LinkedColumns(t) ==
    IF ClassOf(t) = "ToolTable" THEN [Category |-> <<"rec1">>] ELSE <<>>

Fields(t) ==
    UNION {{fs @@ LinkedColumns(t) :
               fs \in {g \in [D -> AllValues(t)] : \A f \in D : g[f] \in FieldValues(t, f)}} :
           D \in SUBSET FieldNames(t)}

RecordLists(t) ==
    UNION {{[i \in 1..n |-> [id |-> i, fields |-> fl[i]]] : fl \in [1..n -> Fields(t)]} :
           n \in 0..MaxRecords}

----------------------------------------------------------------------------
(* State machine *)

NoCall == [fn |-> None, args |-> <<>>, result |-> <<>>]

Init ==
    /\ table_name = None
    /\ records = <<>>
    /\ airtable = <<>>
    /\ wiki = <<>>
    /\ fetched = <<>>
    /\ runs = <<>>
    /\ status = "ready"
    /\ call = NoCall

(* WikiManager.setup_table: the Table constructor fetches all records *)
setup_table(name) ==
    /\ table_name = None
    /\ \E recs \in RecordLists(name) :
          /\ records' = recs
          /\ fetched' = recs
          /\ airtable' = [i \in 1..Len(recs) |-> recs[i].fields]
    /\ table_name' = name
    /\ UNCHANGED <<wiki, runs, status, call>>

(* the steps before the first raising one take effect *)
Store(st) ==
    /\ airtable' = st.airtable
    /\ wiki' = st.wiki
    /\ records' = st.records

Finish(op, done, outcome) ==
    /\ Store(Effect([airtable |-> airtable, wiki |-> wiki, records |-> records], done))
    /\ runs' = Append(runs, [op |-> op, before |-> records, events |-> done, outcome |-> outcome])
    /\ status' = IF outcome = "ok" THEN "ready" ELSE "aborted"

Execute(op, steps) ==
    \E fail \in 0..NumSets(steps, Len(steps)) :
        Finish(op, Executed(steps, fail), Outcome(steps, fail))

(* a manager whose table is set up and whose last call returned *)
Ready ==
    /\ status = "ready"
    /\ table_name # None
    /\ Len(runs) < MaxRuns

(* one call of a manager operation on the table that was set up *)
Run(op) ==
    /\ Execute(op, Steps(op, table_name, records))
    /\ UNCHANGED <<table_name, fetched, call>>

SetupTable ==
    /\ status = "ready"
    /\ \E name \in TableNames : setup_table(name)

UpdateTable ==
    /\ Ready
    /\ Run("update_table")

UpdatePages ==
    /\ Ready
    /\ Run("update_pages")

UpdateTablePages ==
    /\ Ready
    /\ Run("update_table_pages")

Next ==
    \/ SetupTable
    \/ UpdateTable
    \/ UpdatePages
    \/ UpdateTablePages

Spec == Init /\ [][Next]_vars

----------------------------------------------------------------------------
(* The functions of the rendering modules, called on inputs of their own.  *)
(* Texts are sequences of characters.  A behaviour holds one such call.    *)

manager == <<table_name, records, airtable, wiki, fetched, runs, status>>

Called(fn, args, result) == [fn |-> fn, args |-> args, result |-> result]

(* the texts of at most n characters over an alphabet *)
Texts(chars, n) == UNION {[1..k -> chars] : k \in 0..n}

(* str.find: the first position at which old occurs in a, 0 for none *)
find(a, old) ==
    LET hits == {i \in 1..(Len(a) - Len(old) + 1) : SubSeq(a, i, i + Len(old) - 1) = old}
    IN  IF hits = {} THEN 0 ELSE CHOOSE i \in hits : \A j \in hits : i <= j

(* a.replace(old, new, 1) *)
replace(a, old, new) ==
    IF find(a, old) = 0 THEN a
    ELSE SubSeq(a, 1, find(a, old) - 1) \o new \o SubSeq(a, find(a, old) + Len(old), Len(a))

(* the reduce of create_page: each pair replaces the first occurrence of    *)
(* its placeholder in the text the pairs before it left                    *)
RECURSIVE reduce_replace(_, _)
reduce_replace(replacements, a) ==
    IF replacements = <<>> THEN a
    ELSE reduce_replace(Tail(replacements),
                        replace(a, Head(replacements)[1], Head(replacements)[2]))

(* ToolTable.dw_page_template, cut down to four of its placeholders:       *)
(* T for TOOLNAME, D for DESCRIPTION, P for PAPERS and P2 for PAPERS2      *)
dw_page_template == <<"=", "T", "=", "D", "=", "P", "=", "P", "2">>

(* ToolTable.create_page: the pairs (placeholder, value), in their order *)
replacements(tn, description, paper_items, secondary_paper_items) ==
    << <<(<<"T">>), tn>>, <<(<<"D">>), description>>,
       <<(<<"P">>), paper_items>>, <<(<<"P", "2">>), secondary_paper_items>> >>

TemplateChars == {"x", "D", "P"}

(* ToolTable.create_page, lines 426-438: the template is filled *)
FillTemplate ==
    /\ call = NoCall
    /\ \E tn, description, paper_items, secondary_paper_items \in Texts(TemplateChars, MaxValueLen) :
        /\ call' = Called("reduce_replace",
                           <<tn, description, paper_items, secondary_paper_items>>,
                           reduce_replace(replacements(tn, description, paper_items,
                                                       secondary_paper_items),
                                          dw_page_template))
        /\ UNCHANGED manager

(* remotewiki.py: a table embedded in a page between '<div id=...>' and     *)
(* '</div>'.  The start tag is written <t and the end tag </.              *)

start_tag == <<"<", "t">>
end_tag == <<"<", "/">>

PageChars == {"<", "t", "/", "x"}

(* the table rendered from the records, a text of its own *)
table_content == <<"N">>

(* wiki_page[:i] of Python, i counted from the end when negative *)
SliceTo(a, i) ==
    IF i >= 0 THEN SubSeq(a, 1, IF i < Len(a) THEN i ELSE Len(a))
    ELSE SubSeq(a, 1, Len(a) + i)

(* wiki_page[i:] of Python, i counted from the end when negative *)
SliceFrom(a, i) ==
    IF i >= 0 THEN SubSeq(a, i + 1, Len(a))
    ELSE SubSeq(a, (IF Len(a) + i > 0 THEN Len(a) + i ELSE 0) + 1, Len(a))

(* remotewiki.Table.format_table; str.find counts from 0 and gives -1 *)
remote_format_table(wiki_page) ==
    LET start_index == (find(wiki_page, start_tag) - 1) + Len(start_tag)
        end_index == find(wiki_page, end_tag) - 1
    IN  SliceTo(wiki_page, start_index) \o table_content \o SliceFrom(wiki_page, end_index)

EmbedTable ==
    /\ call = NoCall
    /\ \E wiki_page \in Texts(PageChars, MaxPageLen) :
        /\ call' = Called("remote_format_table", <<wiki_page>>, remote_format_table(wiki_page))
        /\ UNCHANGED manager

NameChars == {"a", "b"} \cup Punctuation

(* name.translate(punctuation_translator) *)
Translate ==
    /\ call = NoCall
    /\ \E name \in Texts(NameChars, MaxNameLen) :
        /\ call' = Called("translate", <<name>>, punctuation_translator(name))
        /\ UNCHANGED manager

(* PapersTable.fill_bibliography, lines 799-812: the citation key.  The    *)
(* authors are given by their last names, in the order of the entry.       *)

LastNames == {<<"S", "m">>, <<"L">>}
Years == {<<>>, <<"9">>, <<"1", "9", "9", "8">>}

(* year[-2:] *)
last_two(year) == SliceFrom(year, -2)

(* persons['author'][0] of an entry without authors raises; the test of    *)
(* len(authors_list) comes after it                                        *)
parencite(authors_list, year) ==
    IF Len(authors_list) = 0 THEN Raise
    ELSE IF Len(authors_list) = 1
    THEN Ok(<<"(">> \o authors_list[1] \o <<",", " ", "'">> \o last_two(year) \o <<")">>)
    ELSE IF Len(authors_list) = 2
    THEN Ok(<<"(">> \o authors_list[1] \o <<" ", "&", " ">> \o <<authors_list[2][1]>>
            \o <<",", " ", "'">> \o last_two(year) \o <<")">>)
    ELSE Ok(<<"(">> \o authors_list[1] \o <<" ", "e", "a">>
            \o <<",", " ", "'">> \o last_two(year) \o <<")">>)

FillBibliography ==
    /\ call = NoCall
    /\ \E n \in 0..MaxAuthors :
          \E authors_list \in [1..n -> LastNames], year \in Years :
              /\ call' = Called("fill_bibliography", <<authors_list, year>>,
                                 parencite(authors_list, year))
              /\ UNCHANGED manager

(* format_citation on the records of a papers table *)

PublicationTypes == {<<"article">>, <<"incollection">>, <<"techreport">>, <<"book">>, <<"misc">>}

CitationValue ==
    [Title |-> <<"T">>, Authors |-> <<"A">>, Year |-> <<"Y">>, URL |-> <<"u">>,
     Journal |-> <<"{", "j", "B", "}">>, Vol |-> <<"1">>, Num |-> <<"2">>, Pages |-> <<"3">>,
     Book_title |-> <<"K">>, Institution |-> <<"I">>]

CitationRecords ==
    UNION {{[id |-> 1,
             fields |-> [f \in D \cup T |->
                            IF f = "Publication_type" THEN type ELSE CitationValue[f]]] :
            type \in PublicationTypes, T \in {{}, {"Publication_type"}}} :
           D \in SUBSET DOMAIN CitationValue}

FormatCitation ==
    /\ call = NoCall
    /\ \E record \in CitationRecords :
          /\ call' = Called("format_citation", <<record>>, format_citation(record))
          /\ UNCHANGED manager

(* get_linked_items: the names of the records linked from a column *)

RECURSIVE join(_, _)
join(sep, items) ==
    IF items = <<>> THEN <<>>
    ELSE IF Len(items) = 1 THEN items[1]
    ELSE items[1] \o sep \o join(sep, Tail(items))

(* airtable.get(item_id) succeeds for a record of the table *)
Resolves(linked, item_id, linked_column_name) ==
    /\ item_id \in DOMAIN linked
    /\ linked_column_name \in DOMAIN linked[item_id].fields

(* the names taken from the last linked id to the first *)
item_names_reversed(linked, item_ids, linked_column_name) ==
    [i \in 1..Len(item_ids) |->
        linked[item_ids[Len(item_ids) + 1 - i]].fields[linked_column_name]]

item_names(linked, item_ids, linked_column_name) ==
    [i \in 1..Len(item_ids) |-> linked[item_ids[i]].fields[linked_column_name]]

get_linked_items(linked, column_name, record, linked_column_name) ==
    IF HasField(record, column_name)
    THEN IF \A i \in 1..Len(record.fields[column_name]) :
                Resolves(linked, record.fields[column_name][i], linked_column_name)
         THEN Ok(join(<<",", " ">>,
                      item_names(linked, record.fields[column_name], linked_column_name)))
         ELSE Raise
    ELSE Ok(<<>>)

LinkedIds == {"rec1", "rec2"}
DanglingId == "rec3"

LinkedFields == {[Theory |-> <<"x">>], [Theory |-> <<"y", "z">>], [Notes |-> <<"x">>]}

LinkedTables == [LinkedIds -> [fields : LinkedFields]]

ItemIds == UNION {[1..n -> LinkedIds \cup {DanglingId}] : n \in 0..MaxLinks}

LinkingRecords ==
    {[id |-> 1, fields |-> [Title |-> <<"a">>]]}
    \cup {[id |-> 1, fields |-> [Theories |-> ids]] : ids \in ItemIds}

GetLinkedItems ==
    /\ call = NoCall
    /\ \E linked \in LinkedTables, record \in LinkingRecords :
          /\ call' = Called("get_linked_items", <<linked, "Theories", record, "Theory">>,
                            get_linked_items(linked, "Theories", record, "Theory"))
          /\ UNCHANGED manager

(* ToolTable.construct_row, lines 306-315: the pop-overs of the category   *)
(* cell.  A pop-over is the description it shows and the name it is on.    *)

Categories ==
    [item_id \in {"cat1", "cat2", "cat3"} |->
        [fields |-> [name |-> <<"n", item_id>>, Description |-> <<"d", item_id>>]]]

category_names(categories) ==
    [i \in 1..Len(categories) |-> Categories[categories[i]].fields.name]

category_descriptions(categories) ==
    [i \in 1..Len(categories) |-> Categories[categories[i]].fields.Description]

(* [popover(description, name) for description in ... for name in ...] *)
cat_column(categories) ==
    IF Len(categories) > 0
    THEN [k \in 1..(Len(categories) * Len(categories)) |->
            [content |-> category_descriptions(categories)[((k - 1) \div Len(categories)) + 1],
             name |-> category_names(categories)[((k - 1) % Len(categories)) + 1]]]
    ELSE <<>>

CategoryLists == UNION {[1..n -> DOMAIN Categories] : n \in 0..MaxLinks}

CategoryCell ==
    /\ call = NoCall
    /\ \E categories \in CategoryLists :
          /\ call' = Called("cat_column", <<categories>>, cat_column(categories))
          /\ UNCHANGED manager

(* PapersTable.update_record and fill_bibliography as the list of updates  *)
(* they send to the record store.  A BibTeX text is the sequence of the    *)
(* entry type, the title, the year and the last names of the authors; the  *)
(* entry types are those without fields of their own (book, misc).         *)

BibTexts ==
    {<<"book", "T1", <<"1", "9", "9", "8">>, <<"L">>>>,
     <<"misc", "T2", <<"0", "5">>, <<"S", "m">>, <<"L">>>>}

(* bibtex.Parser().parse_string(bib_string).entries[k] *)
parse_string(bib_string) ==
    [type |-> bib_string[1], title |-> bib_string[2], year |-> bib_string[3],
     author |-> SubSeq(bib_string, 4, Len(bib_string))]

FieldUpdate(field, value) == [field |-> field, value |-> value]

(* lines 763-812: the updates made from a parsed entry *)
entry_updates(entry, key) ==
    <<FieldUpdate("Publication_type", entry.type),
      FieldUpdate("Authors", join(<<";", " ">>, entry.author)),
      FieldUpdate("Year", entry.year),
      FieldUpdate("Title", entry.title)>>
    \o (IF key.ok THEN <<FieldUpdate("parencite", key.val)>> ELSE <<>>)

fill_bibliography(record) ==
    IF HasField(record, "bibtexfull")
    THEN [updates |-> entry_updates(parse_string(record.fields["bibtexfull"]),
                                    parencite(parse_string(record.fields["bibtexfull"]).author,
                                              parse_string(record.fields["bibtexfull"]).year)),
          ok |-> parencite(parse_string(record.fields["bibtexfull"]).author,
                           parse_string(record.fields["bibtexfull"]).year).ok]
    ELSE [updates |-> <<>>, ok |-> FALSE]

(* bib and citations are the answers of dr.doi2bib(doi) and dr.doi2count(doi) *)
update_record(record, bib, citations) ==
    IF HasField(record, "doi")
    THEN [updates |-> <<FieldUpdate("bibtexfull", bib), FieldUpdate("num_citations", citations)>>
                      \o fill_bibliography(record).updates,
          ok |-> fill_bibliography(record).ok]
    ELSE IF HasField(record, "bibtexfull")
    THEN fill_bibliography(record)
    ELSE [updates |-> <<>>, ok |-> TRUE]

BibRecords ==
    {[id |-> 1, fields |-> <<>>], [id |-> 1, fields |-> [doi |-> <<"d">>]]}
    \cup {[id |-> 1, fields |-> [bibtexfull |-> b]] : b \in BibTexts}
    \cup {[id |-> 1, fields |-> [doi |-> <<"d">>, bibtexfull |-> b]] : b \in BibTexts}

UpdateRecord ==
    /\ call = NoCall
    /\ \E record \in BibRecords, bib \in BibTexts, citations \in 0..1 :
          /\ call' = Called("update_record", <<record, bib, citations>>,
                            update_record(record, bib, citations))
          /\ UNCHANGED manager

(* insert_check on the checkbox fields of a paper *)

CheckboxNames == {"Peer-reviewed pub?", "Preregistered?", "Simple_comparison?"}

CheckboxRecords ==
    UNION {{[id |-> 1, fields |-> fs] : fs \in [D -> {True, False}]} :
           D \in SUBSET CheckboxNames}

InsertCheck ==
    /\ call = NoCall
    /\ \E value \in CheckboxNames, record \in CheckboxRecords :
          /\ call' = Called("insert_check", <<value, record>>, insert_check(value, record))
          /\ UNCHANGED manager

LibNext ==
    \/ FillTemplate
    \/ InsertCheck
    \/ GetLinkedItems
    \/ CategoryCell
    \/ UpdateRecord
    \/ FormatCitation
    \/ FillBibliography
    \/ Translate
    \/ EmbedTable

LibSpec == Init /\ [][LibNext]_vars

----------------------------------------------------------------------------
(* One operation of a manager on a table whose records link to other       *)
(* records: Tools (Category, key_papers) and papers_mass (tools, Theories) *)

LinkedTableNames == {"Tools", "papers_mass"}

(* the fields every record of these lists has *)
LinkingBase(t) ==
    IF ClassOf(t) = "ToolTable"
    THEN ("Wiki?" :> True) @@ ("Tool name" :> <<"a">>)
    ELSE ("parencite" :> <<"p">>) @@ ("Title" :> <<"a">>) @@ ("Publication_type" :> <<"article">>)

(* the fields a record may have, each with the lists of ids it may hold *)
LinkingValues(t, f) ==
    CASE f = "Modified" -> {True}
      [] f = "Category" -> {<<"rec1">>, <<"rec1", "rec3">>}
      [] f = "tools" -> {<<"rec1">>, <<"rec3">>}
      [] OTHER -> {<<"rec2">>}

LinkingNames(t) ==
    IF ClassOf(t) = "ToolTable" THEN {"Modified", "Category", "key_papers"}
    ELSE {"Modified", "tools", "Theories"}

LinkingFields(t) ==
    UNION {{fs @@ LinkingBase(t) :
               fs \in {g \in [D -> UNION {LinkingValues(t, f) : f \in D}] :
                          \A f \in D : g[f] \in LinkingValues(t, f)}} :
           D \in SUBSET LinkingNames(t)}

LinkingLists(t) ==
    UNION {{[i \in 1..n |-> [id |-> i, fields |-> fl[i]]] : fl \in [1..n -> LinkingFields(t)]} :
           n \in 0..MaxRecords}

SetupLinkedTable ==
    /\ status = "ready"
    /\ table_name = None
    /\ \E name \in LinkedTableNames : \E recs \in LinkingLists(name) :
          /\ table_name' = name
          /\ records' = recs
          /\ fetched' = recs
          /\ airtable' = [i \in 1..Len(recs) |-> recs[i].fields]
    /\ UNCHANGED <<wiki, runs, status, call>>

(* a manager whose table is set up and that has run no operation *)
Fresh ==
    /\ status = "ready"
    /\ table_name # None
    /\ runs = <<>>

CreateTable ==
    /\ Fresh
    /\ Run("create_table")

CreatePages ==
    /\ Fresh
    /\ Run("create_pages")

CreateTablePages ==
    /\ Fresh
    /\ Run("create_table_pages")

FirstUpdateTable ==
    /\ Fresh
    /\ Run("update_table")

FirstUpdatePages ==
    /\ Fresh
    /\ Run("update_pages")

FirstUpdateTablePages ==
    /\ Fresh
    /\ Run("update_table_pages")

LinkNext ==
    \/ SetupLinkedTable
    \/ CreateTable
    \/ CreatePages
    \/ CreateTablePages
    \/ FirstUpdateTable
    \/ FirstUpdatePages
    \/ FirstUpdateTablePages

LinkSpec == Init /\ [][LinkNext]_vars

----------------------------------------------------------------------------
(* main.py: a manager is made for a wiki version, a table is set up and    *)
(* one operation is called.  status is "start" before WikiManager(version) *)
(* and "unknown_version" for a manager whose __init__ returned before it   *)
(* set self.wiki, self.user_key and self.table.                            *)

Versions == {"official", "test", "staging"}

MainInit ==
    /\ table_name = None
    /\ records = <<>>
    /\ airtable = <<>>
    /\ wiki = <<>>
    /\ fetched = <<>>
    /\ runs = <<>>
    /\ status = "start"
    /\ call = NoCall

(* WikiManager.__init__ *)
NewManager ==
    /\ status = "start"
    /\ \E version \in Versions :
          status' = IF version \in {"official", "test"} THEN "ready" ELSE "unknown_version"
    /\ UNCHANGED <<table_name, records, airtable, wiki, fetched, runs, call>>

(* setup_table on a manager without self.wiki: every branch reads self.wiki *)
(* for the Table constructor, which raises AttributeError                  *)
SetupTableNoWiki ==
    /\ status = "unknown_version"
    /\ \E name \in TableNames :
          runs' = Append(runs, [op |-> "setup_table", before |-> records, events |-> <<>>,
                                outcome |-> "raised"])
    /\ status' = "aborted"
    /\ UNCHANGED <<table_name, records, airtable, wiki, fetched, call>>

MainNext ==
    \/ NewManager
    \/ SetupTable
    \/ SetupTableNoWiki
    \/ CreateTable
    \/ CreatePages
    \/ CreateTablePages
    \/ FirstUpdateTable
    \/ FirstUpdatePages
    \/ FirstUpdateTablePages

MainSpec == MainInit /\ [][MainNext]_vars

----------------------------------------------------------------------------
(* update_all.py: main() on a record store that holds any list of tools.   *)
(* status is "done" when main has returned.                                *)

UpdateAllInit ==
    /\ table_name = None
    /\ records = <<>>
    /\ airtable \in {[i \in 1..Len(recs) |-> recs[i].fields] : recs \in RecordLists("Tools")}
    /\ wiki = <<>>
    /\ fetched = <<>>
    /\ runs = <<>>
    /\ status = "start"
    /\ call = NoCall

(* line 8: manager = wikimanager.WikiManager("official") *)
NewOfficialManager ==
    /\ status = "start"
    /\ status' = "ready"
    /\ UNCHANGED <<table_name, records, airtable, wiki, fetched, runs, call>>

(* lines 9-10: manager.defined_tables is set by __init__;                  *)
(* manager.maintained_tables is set nowhere and raises AttributeError      *)
ReadTables ==
    /\ status = "ready"
    /\ runs = <<>>
    /\ runs' = Append(runs, [op |-> "update_all", before |-> records, events |-> <<>>,
                            outcome |-> "raised"])
    /\ status' = "aborted"
    /\ UNCHANGED <<table_name, records, airtable, wiki, fetched, call>>

UpdateAllNext ==
    \/ NewOfficialManager
    \/ ReadTables

UpdateAllSpec == UpdateAllInit /\ [][UpdateAllNext]_vars /\ WF_vars(UpdateAllNext)

----------------------------------------------------------------------------
(* Vocabulary of the properties *)

UpdateOps == {"update_table", "update_pages", "update_table_pages"}

Ids(recs) == {recs[i].id : i \in 1..Len(recs)}

DirtyIds(recs) == {recs[i].id : i \in {j \in 1..Len(recs) : IsModified(recs[j])}}

(* the flag of a record in the record store *)
StoreDirty(id) == "Modified" \in DOMAIN airtable[id] /\ airtable[id]["Modified"] = True

Updates(r, id) == {i \in 1..Len(r.events) : r.events[i].kind = "update" /\ r.events[i].id = id}

TableSets(r) ==
    {i \in 1..Len(r.events) : r.events[i].kind = "set" /\ r.events[i].page = dw_table_page(table_name)}

PageSets(r) ==
    {i \in 1..Len(r.events) : r.events[i].kind = "set" /\ r.events[i].page # dw_table_page(table_name)}

RowsOf(doc) == SelectSeq(doc, LAMBDA tok : tok.kind = "row")

RowIds(doc) == {doc[i].rec : i \in {j \in 1..Len(doc) : doc[j].kind = "row"}}

RowSeq(doc) == [i \in 1..Len(RowsOf(doc)) |-> RowsOf(doc)[i].rec]

IdSeq(recs) == [i \in 1..Len(recs) |-> recs[i].id]

(* the records that have the main column of the table *)
WithMain(t, recs) == SelectSeq(recs, LAMBDA record : HasField(record, main_column(t)))

(* the records that have the main column and the page-name field *)
WithBoth(t, recs) ==
    SelectSeq(recs, LAMBDA record :
        HasField(record, main_column(t)) /\ HasField(record, dw_page_name_column(t)))

(* the records a table of class ClassOf(t) shows a row for *)
Rendered(t, record) ==
    /\ main_column(t) # None => HasField(record, main_column(t))
    /\ ClassOf(t) = "ToolTable" => HasField(record, "Wiki?")
    /\ ClassOf(t) = "FtseTable" =>
           /\ HasField(record, "Company group")
           /\ record.fields["Company group"] = <<company_group(t)>>

PageKeys(pages) == {pages[i].key : i \in 1..Len(pages)}

(* the identifier of the page of a record *)
PageIdOf(t, record) ==
    root_namespace(t) \o punctuation_translator(record.fields[dw_page_name_column(t)])

(* the position of the last record of a list whose page has the identifier *)
LastWithKey(t, recs, key) ==
    LET at == {n \in 1..Len(recs) :
                  /\ HasField(recs[n], main_column(t))
                  /\ HasField(recs[n], dw_page_name_column(t))
                  /\ PageIdOf(t, recs[n]) = key}
    IN  IF at = {} THEN 0 ELSE CHOOSE n \in at : \A m \in at : m <= n

(* the records an update operation hands to format_pages *)
PagesInput(r) == relevant_records(table_name, modified_records(r.before)).val

(* the record of a list that has the id *)
RecordOf(recs, id) == recs[CHOOSE n \in 1..Len(recs) : recs[n].id = id]

(* the pages of the wiki other than the table page *)
WikiPages == DOMAIN wiki \ {dw_table_page(table_name)}

----------------------------------------------------------------------------
(* C1: selective publish.  In every update_table_pages call on a manager   *)
(* holding the records as fetched, some of them flagged Modified: a table  *)
(* written is the table rendered from all fetched records, every page      *)
(* written is the page of a flagged record, every flagged record got       *)
(* exactly one clearing update and no other record any, and afterwards no  *)
(* record of the store is flagged.                                         *)
C1_SelectivePublish ==
    \A k \in 1..Len(runs) :
        LET r == runs[k] IN
        (r.op = "update_table_pages" /\ r.before = fetched /\ DirtyIds(fetched) # {}) =>
            /\ \A i \in TableSets(r) :
                  /\ format_table(table_name, fetched).ok
                  /\ r.events[i].content = format_table(table_name, fetched).val
            /\ \A i \in PageSets(r) : r.events[i].content[1].rec \in DirtyIds(fetched)
            /\ \A id \in Ids(fetched) :
                  /\ Cardinality(Updates(r, id)) = (IF id \in DirtyIds(fetched) THEN 1 ELSE 0)
                  /\ ~StoreDirty(id)
            /\ r.outcome = "ok" => TableSets(r) # {}

(* a completed update_table_pages over one flagged and one unflagged       *)
(* record: a table of two rows and a single page were written              *)
C1_Witness ==
    \E k \in 1..Len(runs) :
        LET r == runs[k] IN
        /\ r.op = "update_table_pages" /\ r.outcome = "ok" /\ r.before = fetched
        /\ Len(fetched) = 2 /\ Cardinality(DirtyIds(fetched)) = 1
        /\ \E i \in TableSets(r) : Len(RowsOf(r.events[i].content)) = 2
        /\ Cardinality(PageSets(r)) = 1

C3_ClearAfterPublish ==
    \A k \in 1..Len(runs) :
        LET r == runs[k] IN
        r.op \in UpdateOps =>
            \A i \in 1..Len(r.events) :
                r.events[i].kind = "update" =>
                    /\ r.outcome = "ok"
                    /\ \A j \in 1..Len(r.events) : r.events[j].kind = "set" => j < i

(* C4: table completeness.  Every table an update operation writes holds  *)
(* a row for every record fetched at setup that has the main column.  The  *)
(* records whose row the class leaves out by its own rule (ToolTable       *)
(* without 'Wiki?', FtseTable of the other company group) are not asked    *)
(* for here, so a violation is a violation of the claim as well.           *)
C4_TableComplete ==
    \A k \in 1..Len(runs) :
        LET r == runs[k] IN
        r.op \in UpdateOps =>
            \A i \in TableSets(r) :
                \A n \in 1..Len(fetched) :
                    (/\ HasField(fetched[n], main_column(table_name))
                     /\ construct_row(table_name, fetched[n]).val # <<>>)
                    => fetched[n].id \in RowIds(r.events[i].content)

(* C5 as claimed: over all operations called on the manager after          *)
(* setup_table, a record receives at most one clearing update.             *)
C5_ClearedOncePerManager ==
    \A id \in Ids(fetched) :
        Cardinality(UNION {{<<k, i>> : i \in Updates(runs[k], id)} : k \in 1..Len(runs)}) <= 1

(* C5 as amended: within one call of update_table, update_pages or         *)
(* update_table_pages a record receives at most one clearing update, and   *)
(* only a record flagged in the manager's list receives one.               *)
C5_ClearedOncePerCall ==
    \A k \in 1..Len(runs) :
        LET r == runs[k] IN
        r.op \in UpdateOps =>
            \A id \in Ids(fetched) :
                /\ Cardinality(Updates(r, id)) <= 1
                /\ Updates(r, id) # {} => id \in DirtyIds(r.before)

(* two calls on one manager both cleared the same record *)
C5_Witness ==
    /\ Len(runs) = 2
    /\ \E id \in Ids(fetched) : Updates(runs[1], id) # {} /\ Updates(runs[2], id) # {}

(* C6: when no record of the manager's list carries Modified, an update    *)
(* operation writes nothing to the wiki, sends nothing to the record store *)
(* and leaves the record list as it is.                                    *)
C6_NoDirtyNoEffect ==
    [][(/\ table_name # None
        /\ DirtyIds(records) = {}
        /\ runs' # runs
        /\ runs'[Len(runs')].op \in UpdateOps) =>
          (/\ wiki' = wiki
           /\ airtable' = airtable
           /\ records' = records
           /\ status' = status
           /\ runs'[Len(runs')].events = <<>>)]_vars

(* an update operation was called on two records, none flagged, both with  *)
(* the main column, and did nothing                                        *)
C6_Witness ==
    /\ Len(runs) >= 1
    /\ Len(fetched) = 2 /\ DirtyIds(fetched) = {}
    /\ \A n \in 1..2 : HasField(fetched[n], main_column(table_name))
    /\ runs[1].events = <<>> /\ wiki = <<>>

(* C7: a record lacking the main column yields no row and no page, and is  *)
(* never an error.  For every table class that has a main column,          *)
(* format_table and format_pages give on a record list exactly what they   *)
(* give on the list without the records that lack the main column, result  *)
(* or exception alike; the rows and pages returned come from records that  *)
(* have it; a list in which no record has it gives a table without rows    *)
(* and no page.                                                            *)
C7_MainColumnRequired ==
    (table_name # None /\ main_column(table_name) # None) =>
        LET table == format_table(table_name, records)
            pages == format_pages(table_name, records)
            kept == WithMain(table_name, records)
        IN  /\ table = format_table(table_name, kept)
            /\ pages = format_pages(table_name, kept)
            /\ table.ok => RowIds(table.val) \subseteq Ids(kept)
            /\ pages.ok => \A i \in 1..Len(pages.val) : pages.val[i].page[1].rec \in Ids(kept)
            /\ kept = <<>> => /\ table.ok /\ RowIds(table.val) = {}
                              /\ pages.ok /\ pages.val = <<>>

(* update_table_pages completed on two flagged records, one of them        *)
(* without the main column: the table written has one row, and one page    *)
(* was written                                                             *)
C7_Witness ==
    /\ table_name # None /\ main_column(table_name) # None
    /\ \E k \in 1..Len(runs) :
          LET r == runs[k] IN
          /\ r.op = "update_table_pages" /\ r.outcome = "ok"
          /\ Len(r.before) = 2 /\ Cardinality(DirtyIds(r.before)) = 2
          /\ Len(WithMain(table_name, r.before)) = 1
          /\ \E i \in TableSets(r) : Len(RowsOf(r.events[i].content)) = 1
          /\ Cardinality(PageSets(r)) = 1

(* C8 as claimed: the table holds as many rows as there are records with   *)
(* the main column.                                                        *)
C8_RowCountEqualsMainCount ==
    (/\ table_name # None
     /\ main_column(table_name) # None
     /\ format_table(table_name, records).ok) =>
        Len(RowsOf(format_table(table_name, records).val)) = Len(WithMain(table_name, records))

(* C8 as amended: whenever format_table returns, the table holds one row   *)
(* for each record that has the main column (for each record, in the       *)
(* generic Table) and that the row constructor of the class does not leave *)
(* out, which ToolTable does with a record without 'Wiki?' and FtseTable   *)
(* with a record of another company group; no row is duplicated.           *)
C8_RowCountEqualsRenderedCount ==
    (table_name # None /\ format_table(table_name, records).ok) =>
        LET doc == format_table(table_name, records).val
        IN  /\ Len(RowsOf(doc)) =
                   Len(SelectSeq(records, LAMBDA record : Rendered(table_name, record)))
            /\ Cardinality(RowIds(doc)) = Len(RowsOf(doc))

(* a Tools table of one row was written from two records that both have   *)
(* the main column, one of them without 'Wiki?'                            *)
C8_Witness ==
    /\ table_name = "Tools"
    /\ \E k \in 1..Len(runs) :
          LET r == runs[k] IN
          /\ Len(r.before) = 2 /\ Len(WithMain(table_name, r.before)) = 2
          /\ \E i \in TableSets(r) : Len(RowsOf(r.events[i].content)) = 1

(* C9: the rows follow the header in the order of the input list.  The     *)
(* record ids of the rows, read from the top of the table, are the ids of  *)
(* the input records that got a row, read in input order, and no row       *)
(* precedes the header.                                                    *)
C9_RowsInInputOrder ==
    (table_name # None /\ format_table(table_name, records).ok) =>
        LET doc == format_table(table_name, records).val
        IN  /\ RowSeq(doc) = IdSeq(SelectSeq(records, LAMBDA record : record.id \in RowIds(doc)))
            /\ \A i, j \in 1..Len(doc) :
                   (doc[i].kind = "row" /\ doc[j].kind \in {"header", "open"}) => j < i
            /\ \A i, j \in 1..Len(doc) :
                   (doc[i].kind = "row" /\ doc[j].kind = "close") => i < j

(* the wiki holds a table page that starts with the header and goes on     *)
(* with the rows of records 1 and 2, in that order                         *)
C9_Witness ==
    /\ table_name # None
    /\ dw_table_page(table_name) \in DOMAIN wiki
    /\ LET doc == wiki[dw_table_page(table_name)]
       IN  /\ RowSeq(doc) = <<1, 2>>
           /\ doc[1].kind = "header"

(* C10: for a table with a main column and a page-name column, whenever    *)
(* format_pages returns, the keys of the pages are exactly the identifiers *)
(* root_namespace + sanitized page name of the records that have both the  *)
(* main column and the page-name field, and each page is the page of such  *)
(* a record, stored under the identifier of that record.                   *)
C10_PagesForBothFields ==
    (/\ table_name # None
     /\ main_column(table_name) # None
     /\ dw_page_name_column(table_name) # None
     /\ format_pages(table_name, records).ok) =>
        LET pages == format_pages(table_name, records).val
            both == WithBoth(table_name, records)
            PageId(record) ==
                root_namespace(table_name)
                \o punctuation_translator(record.fields[dw_page_name_column(table_name)])
        IN  /\ PageKeys(pages) = {PageId(both[n]) : n \in 1..Len(both)}
            /\ Cardinality(PageKeys(pages)) = Len(pages)
            /\ \A i \in 1..Len(pages) :
                   \E n \in 1..Len(both) :
                       /\ pages[i].page[1].rec = both[n].id
                       /\ pages[i].key = PageId(both[n])

(* two flagged papers, one with a title but no citation key, one with      *)
(* both: the only page of the wiki is the page of the second, under its    *)
(* title without punctuation                                               *)
C10_Witness ==
    /\ table_name = "papers_mass"
    /\ Len(fetched) = 2 /\ Cardinality(DirtyIds(fetched)) = 2
    /\ \A n \in 1..2 : HasField(fetched[n], "Title")
    /\ Len(WithBoth(table_name, fetched)) = 1
    /\ WikiPages = {<<"papers:", "a">>}

(* C11: two records with the same page identifier give one page, that of   *)
(* the later record.  Whenever format_pages returns, no identifier occurs  *)
(* twice in the result and the page under an identifier is the page of     *)
(* the last input record with that identifier; the page writes of an       *)
(* update operation then carry pairwise different identifiers, each with   *)
(* the page of the last flagged record of that identifier.                 *)
C11_LaterRecordWins ==
    (/\ table_name # None
     /\ main_column(table_name) # None
     /\ dw_page_name_column(table_name) # None) =>
        /\ format_pages(table_name, records).ok =>
               LET pages == format_pages(table_name, records).val
               IN  /\ \A i, j \in 1..Len(pages) : pages[i].key = pages[j].key => i = j
                   /\ \A i \in 1..Len(pages) :
                          /\ LastWithKey(table_name, records, pages[i].key) # 0
                          /\ pages[i].page[1].rec =
                                 records[LastWithKey(table_name, records, pages[i].key)].id
        /\ \A k \in 1..Len(runs) :
               LET r == runs[k] IN
               r.op \in {"update_pages", "update_table_pages"} =>
                   /\ \A i, j \in PageSets(r) : r.events[i].page = r.events[j].page => i = j
                   /\ \A i \in PageSets(r) :
                          /\ LastWithKey(table_name, PagesInput(r), r.events[i].page) # 0
                          /\ r.events[i].content[1].rec =
                                 PagesInput(r)[LastWithKey(table_name, PagesInput(r),
                                                           r.events[i].page)].id

(* update_pages completed on two flagged tools named differently whose     *)
(* names are equal once the punctuation is gone: one page was written, and *)
(* it is the page of the second tool                                       *)
C11_Witness ==
    /\ table_name = "Tools"
    /\ \E k \in 1..Len(runs) :
          LET r == runs[k] IN
          /\ r.op = "update_pages" /\ r.outcome = "ok"
          /\ Len(PagesInput(r)) = 2
          /\ \A n \in 1..2 : HasField(PagesInput(r)[n], "Tool name")
          /\ PagesInput(r)[1].fields["Tool name"] # PagesInput(r)[2].fields["Tool name"]
          /\ PageIdOf(table_name, PagesInput(r)[1]) = PageIdOf(table_name, PagesInput(r)[2])
          /\ Cardinality(PageSets(r)) = 1
          /\ \A i \in PageSets(r) : r.events[i].content[1].rec = PagesInput(r)[2].id

(* C12: a link to a record leads to the page of that record.  In a table   *)
(* whose rows link to the pages of their records, whenever the table and   *)
(* the pages of a record list are both rendered, the target of the link in *)
(* a row is root_namespace + sanitized page name of the record of the row, *)
(* and the pages rendered from the same list hold a page of that record    *)
(* under that identifier.                                                  *)
C12_LinksHavePages ==
    (/\ table_name # None
     /\ dw_page_name_column(table_name) # None
     /\ format_table(table_name, records).ok
     /\ set_pages(table_name, records) # <<RaiseStep>>) =>
        LET doc == format_table(table_name, records).val
            written == set_pages(table_name, records)
        IN  \A i \in 1..Len(doc) :
                doc[i].kind = "row" =>
                    /\ HasField(RecordOf(records, doc[i].rec), dw_page_name_column(table_name))
                    /\ doc[i].text = PageIdOf(table_name, RecordOf(records, doc[i].rec))
                    /\ \E j \in 1..Len(written) :
                           /\ written[j].kind = "set"
                           /\ written[j].page = doc[i].text

(* C13: every placeholder of the template gets the value of its own field. *)
(* The page made from the template is the template with each placeholder   *)
(* replaced by its value, whatever the values contain.                     *)
C13_PlaceholdersGetOwnValues ==
    call.fn = "reduce_replace" =>
        call.result = <<"=">> \o call.args[1] \o <<"=">> \o call.args[2]
                      \o <<"=">> \o call.args[3] \o <<"=">> \o call.args[4]

(* the first position from which on a text holds a pattern, at or after a  *)
(* given position; 0 for none                                              *)
FindFrom(a, old, from) ==
    LET hits == {i \in from..(Len(a) - Len(old) + 1) : SubSeq(a, i, i + Len(old) - 1) = old}
    IN  IF hits = {} THEN 0 ELSE CHOOSE i \in hits : \A j \in hits : i <= j

(* C14: region-scoped embedding.  For a page that holds the start tag and, *)
(* after it, an end tag, the new page is the page up to and including the  *)
(* start tag, then the new table, then the page from the first end tag     *)
(* that follows the start tag on.                                          *)
C14_OnlyRegionReplaced ==
    (/\ call.fn = "remote_format_table"
     /\ find(call.args[1], start_tag) # 0
     /\ FindFrom(call.args[1], end_tag, find(call.args[1], start_tag) + Len(start_tag)) # 0) =>
        LET page == call.args[1]
            s == find(page, start_tag)
            e == FindFrom(page, end_tag, s + Len(start_tag))
        IN  call.result = SubSeq(page, 1, s + Len(start_tag) - 1) \o table_content
                          \o SubSeq(page, e, Len(page))

(* C15: sanitization is idempotent.  Translating the result of a           *)
(* translation again changes nothing; the result holds no punctuation and  *)
(* keeps the other characters of the name in their order.                  *)
C15_SanitizeIdempotent ==
    call.fn = "translate" =>
        /\ punctuation_translator(call.result) = call.result
        /\ \A i \in 1..Len(call.result) : call.result[i] \notin Punctuation

(* a name with two punctuation characters around a letter was translated  *)
(* to the letter alone                                                     *)
C15_Witness ==
    /\ call.fn = "translate"
    /\ call.args[1] = <<"!", "a", "!">>
    /\ call.result = <<"a">>

(* the last two characters of a year, or all of a shorter one *)
YY(year) == IF Len(year) <= 2 THEN year ELSE SubSeq(year, Len(year) - 1, Len(year))

(* C16: the citation key follows the tie-break rule for every author list. *)
(* fill_bibliography gives the empty key for no author, (Last, 'YY) for    *)
(* one, (Last1 & initial of Last2, 'YY) for two and (Last1 ea, 'YY) for    *)
(* three or more.                                                          *)
C16_CitationKeyRule ==
    call.fn = "fill_bibliography" =>
        LET authors == call.args[1]
            tail == <<",", " ", "'">> \o YY(call.args[2]) \o <<")">>
        IN  /\ call.result.ok
            /\ call.result.val =
                  CASE Len(authors) = 0 -> <<>>
                    [] Len(authors) = 1 -> <<"(">> \o authors[1] \o tail
                    [] Len(authors) = 2 ->
                          <<"(">> \o authors[1] \o <<" ", "&", " ", authors[2][1]>> \o tail
                    [] OTHER -> <<"(">> \o authors[1] \o <<" ", "e", "a">> \o tail

(* C17: the reference is assembled by publication type.  For a record      *)
(* with 'Publication_type' and 'Title', format_citation returns            *)
(*   article       Authors, (Year). Title. Journal, Vol, Num, Pages.       *)
(*   incollection  Authors, (Year). Title, Pages. In: Book title.          *)
(*   techreport    Authors, (Year). Title. Institution.                    *)
(*   other types   Authors, (Year). Title.                                 *)
(* with the empty text for an absent field, the title between // and       *)
(* linked to the URL if there is one, and the journal without braces and   *)
(* capitalised; for a record without one of the two fields it raises.      *)
C17_ReferenceByType ==
    call.fn = "format_citation" =>
        LET record == call.args[1]
            G(f) == IF f \in DOMAIN record.fields THEN CitationValue[f] ELSE <<>>
            type == record.fields["Publication_type"]
            title == IF "URL" \in DOMAIN record.fields
                     THEN <<"//[[", "u", "|", "T", "]]//">> ELSE <<"//", "T", "//">>
            journal == IF "Journal" \in DOMAIN record.fields THEN <<"J", "b">> ELSE <<>>
            head == G("Authors") \o <<", (">> \o G("Year") \o <<"). ">> \o title
        IN  /\ call.result.ok <=> {"Publication_type", "Title"} \subseteq DOMAIN record.fields
            /\ call.result.ok =>
                  call.result.val =
                     CASE type = <<"article">> ->
                             head \o <<".", " ">> \o journal \o <<", ">> \o G("Vol") \o <<", ">>
                             \o G("Num") \o <<", ">> \o G("Pages") \o <<".">>
                       [] type = <<"incollection">> ->
                             head \o <<", ">> \o G("Pages") \o <<". In: ">>
                             \o G("Book_title") \o <<".">>
                       [] type = <<"techreport">> ->
                             head \o <<".", " ">> \o G("Institution") \o <<".">>
                       [] OTHER -> head \o <<".">>

(* a technical report with authors, year, title and institution was cited  *)
(* with its institution                                                    *)
C17_Witness ==
    /\ call.fn = "format_citation"
    /\ call.args[1].fields =
          [Publication_type |-> <<"techreport">>, Title |-> <<"T">>, Authors |-> <<"A">>,
           Year |-> <<"Y">>, Institution |-> <<"I">>]
    /\ call.result = Ok(<<"A", ", (", "Y", "). ", "//", "T", "//", ".", " ", "I", ".">>)

(* C18: a checkbox renders the check mark exactly when the field is in the *)
(* record.  insert_check returns the check mark if the record has the      *)
(* field, whatever is stored in it, and the empty text if it has not.      *)
C18_CheckIffPresent ==
    call.fn = "insert_check" =>
        /\ call.result \in {<<>>, CheckMark}
        /\ call.result = CheckMark <=> call.args[1] \in DOMAIN call.args[2].fields

(* a field stored as False was rendered with the check mark *)
C18_Witness ==
    /\ call.fn = "insert_check"
    /\ call.args[1] \in DOMAIN call.args[2].fields
    /\ call.args[2].fields[call.args[1]] = False
    /\ call.result = CheckMark

(* where the k-th name starts in a text of names joined by a two-character separator *)
RECURSIVE NameStart(_, _)
NameStart(names, k) ==
    IF k = 1 THEN 1 ELSE NameStart(names, k - 1) + Len(names[k - 1]) + 2

(* the display values of the records linked from the column of the call, in the order of the ids *)
LinkedNames ==
    [i \in 1..Len(call.args[3].fields[call.args[2]]) |->
        call.args[1][call.args[3].fields[call.args[2]][i]].fields[call.args[4]]]

(* C19: get_linked_items returns the empty text when the record has not the *)
(* column of linked ids; otherwise the text it returns holds, for each id   *)
(* in the order of the ids, the display value of the record with that id,   *)
(* with ", " between two consecutive values and nothing else.               *)
C19_LinkedItemsJoined ==
    (call.fn = "get_linked_items" /\ call.result.ok) =>
        IF call.args[2] \notin DOMAIN call.args[3].fields
        THEN call.result.val = <<>>
        ELSE /\ \A k \in 1..Len(LinkedNames) :
                  /\ SubSeq(call.result.val, NameStart(LinkedNames, k),
                            NameStart(LinkedNames, k) + Len(LinkedNames[k]) - 1) = LinkedNames[k]
                  /\ k > 1 => SubSeq(call.result.val, NameStart(LinkedNames, k) - 2,
                                      NameStart(LinkedNames, k) - 1) = <<",", " ">>
             /\ Len(call.result.val) =
                    IF LinkedNames = <<>> THEN 0
                    ELSE NameStart(LinkedNames, Len(LinkedNames))
                         + Len(LinkedNames[Len(LinkedNames)]) - 1

(* two ids linked to records with different display values were resolved *)
C19_Witness ==
    /\ call.fn = "get_linked_items"
    /\ call.result.ok
    /\ call.args[2] \in DOMAIN call.args[3].fields
    /\ Len(LinkedNames) = 2
    /\ LinkedNames[1] # LinkedNames[2]
    /\ call.result.val = LinkedNames[1] \o <<",", " ">> \o LinkedNames[2]

(* the calls of a run that name a referenced record *)
ItemCalls(r) == {i \in 1..Len(r.events) : r.events[i].item # None}

(* C20: rendering only reads the records a record links to.  In every run  *)
(* of a create or update operation, each call that names a referenced      *)
(* record is a fetch; each update sent to the record store clears Modified *)
(* on a record that was flagged in the manager's records when the run      *)
(* began, and a create operation sends none; in the record store every     *)
(* field other than Modified is the one that was fetched.                  *)
C20_ReferencesReadOnly ==
    /\ \A n \in 1..Len(runs) :
          /\ \A i \in ItemCalls(runs[n]) : runs[n].events[i].kind = "get"
          /\ \A i \in 1..Len(runs[n].events) :
                /\ runs[n].events[i].kind \in {"get", "update", "set", "sleep", "assign"}
                /\ runs[n].events[i].kind = "update" =>
                      /\ runs[n].op \in UpdateOps
                      /\ runs[n].events[i].id \in DirtyIds(runs[n].before)
    /\ \A id \in 1..Len(fetched) :
          /\ DOMAIN airtable[id] \ {"Modified"} = DOMAIN fetched[id].fields \ {"Modified"}
          /\ \A f \in DOMAIN fetched[id].fields \ {"Modified"} :
                airtable[id][f] = fetched[id].fields[f]

(* a run that fetched a referenced record, cleared a flag and ended normally *)
C20_Witness ==
    /\ runs # <<>>
    /\ runs[1].outcome = "ok"
    /\ ItemCalls(runs[1]) # {}
    /\ \E i \in 1..Len(runs[1].events) : runs[1].events[i].kind = "update"
    /\ \E i \in 1..Len(runs[1].events) : runs[1].events[i].kind = "set"

(* the record links to an id that names no record *)
HasDanglingId(record) ==
    \E f \in {"Category", "key_papers", "tools", "Theories"} \cap DOMAIN record.fields :
        ~AllResolve(record.fields[f])

(* C21: a record that has the main column and the page-name field is       *)
(* rendered whatever other field it lacks.  No run over records that all   *)
(* have both fields, and whose linked ids all name a record, ends with an  *)
(* exception of the program.                                               *)
C21_AbsentFieldsRender ==
    \A n \in 1..Len(runs) :
        runs[n].outcome = "raised" =>
            \E i \in 1..Len(runs[n].before) : HasDanglingId(runs[n].before[i])

(* C22: page writes are paced.  In every run each write of a page is       *)
(* followed at once by a sleep of at least 5 seconds, so a sleep lies      *)
(* between any two page writes; no page is written twice in a run, and a   *)
(* run of update_pages or update_table_pages that returns has written each *)
(* page of format_pages, with its content.                                 *)
C22_PageWritesPaced ==
    \A n \in 1..Len(runs) :
        /\ \A i \in PageSets(runs[n]) :
              /\ i < Len(runs[n].events)
              /\ runs[n].events[i + 1].kind = "sleep"
              /\ runs[n].events[i + 1].secs >= 5
        /\ \A i, j \in PageSets(runs[n]) :
              runs[n].events[i].page = runs[n].events[j].page => i = j
        /\ (/\ runs[n].outcome = "ok"
            /\ runs[n].op \in {"update_pages", "update_table_pages"}
            /\ DirtyIds(runs[n].before) # {})
           => /\ format_pages(table_name, PagesInput(runs[n])).ok
              /\ {[key |-> runs[n].events[i].page, page |-> runs[n].events[i].content] :
                      i \in PageSets(runs[n])}
                 = {format_pages(table_name, PagesInput(runs[n])).val[k] :
                      k \in 1..Len(format_pages(table_name, PagesInput(runs[n])).val)}

(* a run that returned after writing two pages *)
C22_Witness ==
    \E n \in 1..Len(runs) :
        /\ runs[n].outcome = "ok"
        /\ Cardinality(PageSets(runs[n])) = 2

(* C23: a run for an unknown wiki version goes on to its end.  No step of  *)
(* a manager made for a version other than 'official' and 'test' raises,   *)
(* writes to the wiki or updates the record store.                         *)
C23_UnknownVersionContinues ==
    [][status = "unknown_version" =>
          /\ status' # "aborted"
          /\ wiki' = wiki
          /\ airtable' = airtable]_vars

(* C24: a table name without a class is published as a plain dump.  On    *)
(* such a table no run ends with an exception of the program; create_table *)
(* that returns has written to 'tables:test' one row for each fetched      *)
(* record, in order; create_pages that returns has written one page,       *)
(* 'test:test_page', made from the first record.                           *)
C24_UnknownTableDump ==
    table_name = "Unknown" =>
        \A n \in 1..Len(runs) :
            /\ runs[n].outcome # "raised"
            /\ (runs[n].op = "create_table" /\ runs[n].outcome = "ok") =>
                  /\ Len(runs[n].events) = 1
                  /\ runs[n].events[1].kind = "set"
                  /\ runs[n].events[1].page = <<"tables:test">>
                  /\ RowSeq(runs[n].events[1].content) = IdSeq(runs[n].before)
            /\ (runs[n].op = "create_pages" /\ runs[n].outcome = "ok") =>
                  /\ Cardinality(PageSets(runs[n])) = 1
                  /\ \A i \in PageSets(runs[n]) :
                        /\ runs[n].events[i].page = <<"test:test_page">>
                        /\ runs[n].events[i].content[1].rec = runs[n].before[1].id

(* the fetched records of the ids *)
Unpublished(ids) == {id \in ids : ~HasField(RecordOf(fetched, id), "Wiki?")}

(* C25: a tool without 'Wiki?' is never published.  In every run on the    *)
(* Tools table, create or update, no row of a written table and no written *)
(* page comes from a record that lacks 'Wiki?', whatever else it has.      *)
C25_WikiFlagRequired ==
    table_name = "Tools" =>
        \A n \in 1..Len(runs) :
            /\ \A i \in TableSets(runs[n]) : Unpublished(RowIds(runs[n].events[i].content)) = {}
            /\ \A i \in PageSets(runs[n]) :
                  Unpublished({runs[n].events[i].content[1].rec}) = {}

(* a run wrote the table and a page while a flagged tool with its name but *)
(* without 'Wiki?' was among the records                                   *)
C25_Witness ==
    /\ table_name = "Tools"
    /\ runs # <<>>
    /\ runs[1].outcome = "ok"
    /\ TableSets(runs[1]) # {}
    /\ PageSets(runs[1]) # {}
    /\ \E i \in 1..Len(runs[1].before) :
          /\ HasField(runs[1].before[i], "Tool name")
          /\ HasField(runs[1].before[i], "Modified")
          /\ ~HasField(runs[1].before[i], "Wiki?")

(* C26: update_all.main comes to its end.  Every run of main eventually    *)
(* returns, after it has set up each table of defined_tables and called    *)
(* update_table_pages on it.                                               *)
C26_AllTablesUpdated == <>(status = "done")

(* C27: a table without linked pages has no pages written.  On a table     *)
(* whose class sets linked_pages to False no run of any operation writes a *)
(* page other than the table page, and the wiki holds none.                *)
C27_NoPagesWithoutLinkedPages ==
    (table_name # None /\ ~linked_pages(table_name)) =>
        /\ \A n \in 1..Len(runs) : PageSets(runs[n]) = {}
        /\ WikiPages = {}

(* create_pages or update_pages returned on such a table for a flagged     *)
(* record that has the main column                                         *)
C27_Witness ==
    /\ table_name # None
    /\ ~linked_pages(table_name)
    /\ runs # <<>>
    /\ runs[1].op \in {"create_pages", "update_pages"}
    /\ runs[1].outcome = "ok"
    /\ \E i \in 1..Len(runs[1].before) :
          /\ HasField(runs[1].before[i], main_column(table_name))
          /\ HasField(runs[1].before[i], "Modified")

(* C28: the category cell of a tool holds one pop-over for each category   *)
(* of the record: as many pop-overs as categories, the k-th one showing    *)
(* the description of the k-th category on the name of that category.      *)
C28_OnePopoverPerCategory ==
    call.fn = "cat_column" =>
        /\ Len(call.result) = Len(call.args[1])
        /\ \A k \in 1..Len(call.args[1]) :
              /\ k <= Len(call.result)
              /\ call.result[k].name = Categories[call.args[1][k]].fields.name
              /\ call.result[k].content = Categories[call.args[1][k]].fields.Description

BibliographicFields == {"Publication_type", "Authors", "Year", "Title", "parencite"}

(* C29: update_record on a record with a doi writes bibliographic fields   *)
(* that come from the citation fetched for the doi.  The call returns and  *)
(* its updates of Publication_type, Authors, Year, Title and parencite are *)
(* those made from the text it has just written to bibtexfull, whatever    *)
(* the record held before.                                                 *)
C29_FieldsFromFetchedCitation ==
    (call.fn = "update_record" /\ "doi" \in DOMAIN call.args[1].fields) =>
        /\ call.result.ok
        /\ call.result.updates[1] = FieldUpdate("bibtexfull", call.args[2])
        /\ SelectSeq(call.result.updates, LAMBDA u : u.field \in BibliographicFields)
           = entry_updates(parse_string(call.args[2]),
                           parencite(parse_string(call.args[2]).author,
                                     parse_string(call.args[2]).year))

(* C30: a page without the markers keeps its body.  When the fetched page  *)
(* lacks the start tag or holds no end tag, the page written back is the   *)
(* original page with the table text inserted at one place: nothing of     *)
(* the page is lost and nothing is there twice.                            *)
C30_BodyKeptWithoutMarkers ==
    (/\ call.fn = "remote_format_table"
     /\ (find(call.args[1], start_tag) = 0 \/ find(call.args[1], end_tag) = 0)) =>
        \E k \in 0..Len(call.args[1]) :
            call.result = SubSeq(call.args[1], 1, k) \o table_content
                          \o SubSeq(call.args[1], k + 1, Len(call.args[1]))

====
